---- MODULE Spec2Model ----
(***************************************************************************)
(* Analysis orchestration pipeline of CVATS: POST /api/analyses            *)
(* (src/cvats/src/app/api/analyses/route.ts), the two-phase Gemini file    *)
(* client analyzeWithGeminiFile (src/unnamed/part_019), the keyword        *)
(* scorer (src/cvats/src/server/analysis/score.ts), the request throttle   *)
(* (src/unnamed/part_025) and the in-memory repositories.                  *)
(*                                                                         *)
(* Spec is the request handler; SpecParse, SpecRate and SpecScore call     *)
(* parseGeminiJson, checkRateLimit and scoreKeywords on their own.         *)
(*                                                                         *)
(* One request slot per element of Reqs; every action is one synchronous   *)
(* run of the handler between two await points.  Strings of the program    *)
(* are TLA+ strings; an optional value is "NULL" (strings), NoNum          *)
(* (numbers) or the empty sequence (records).                              *)
(***************************************************************************)
EXTENDS Integers, Sequences, FiniteSets, TLC

\* ------------------------------------------------------------------ bounds
NumReqs == 2
TickMs == 1000
MaxElapsed == 8000
MaxTokens == 5
MaxCalls == 12
RateStepMs == 30000
MaxRateSteps == 3
MaxKeywords == 3

\* ------------------------------------------------------- program constants
ANALYSIS_MAX_FILE_MB == 10
MAX_FILE_BYTES == ANALYSIS_MAX_FILE_MB * 1024 * 1024
MAX_BACKOFF_MS == 4000
PROD_ANALYSIS_TIMEOUT_MS == 7000
DEFAULT_RETRY_MS == 1000
MAX_POLL_ATTEMPTS == 5
POLL_STEP_MS == 200
WINDOW_MS == 60000
LIMIT == 10
DEFAULT_KEYWORDS == <<"javascript", "react", "node", "typescript", "nextjs">>

NULL == "NULL"
NoNum == -1
None == <<>>
Some(v) == <<v>>

Reqs == 1..NumReqs
Users == {"u1", "u2"}

PDF == "application/pdf"
DOCX == "application/vnd.openxmlformats-officedocument.wordprocessingml.document"

\* ------------------------------------------------------------ string helpers
RECURSIVE toLowerCase(_)
lowerChar(c) ==
  CASE c = "A" -> "a" [] c = "B" -> "b" [] c = "R" -> "r" [] c = "N" -> "n"
    [] OTHER -> c
toLowerCase(s) ==
  IF Len(s) = 0 THEN ""
  ELSE lowerChar(SubSeq(s, 1, 1)) \o toLowerCase(SubSeq(s, 2, Len(s)))

RECURSIVE trimStart(_)
trimStart(s) ==
  IF Len(s) > 0 /\ SubSeq(s, 1, 1) = " " THEN trimStart(SubSeq(s, 2, Len(s))) ELSE s
RECURSIVE trimEnd(_)
trimEnd(s) ==
  IF Len(s) > 0 /\ SubSeq(s, Len(s), Len(s)) = " "
  THEN trimEnd(SubSeq(s, 1, Len(s) - 1)) ELSE s
trim(s) == trimEnd(trimStart(s))

includes(text, word) ==
  \E i \in 0..(Len(text) - Len(word)) : SubSeq(text, i + 1, i + Len(word)) = word

SeqContains(seq, x) == \E i \in DOMAIN seq : seq[i] = x
RECURSIVE SeqFilter(_, _)
SeqFilter(seq, keep) ==
  IF seq = <<>> THEN <<>>
  ELSE IF Head(seq) \in keep THEN <<Head(seq)>> \o SeqFilter(Tail(seq), keep)
       ELSE SeqFilter(Tail(seq), keep)
Range(seq) == {seq[i] : i \in DOMAIN seq}
Min(a, b) == IF a < b THEN a ELSE b

\* ------------------------------------------------------------ keyword scorer
clampScore(num, den) ==
  \* value = 100 * num / den; Math.round rounds half up
  IF num <= 0 THEN 0
  ELSE IF num >= den THEN 100
  ELSE (200 * num + den) \div (2 * den)

normalizeWord(word) == toLowerCase(trim(word))

RECURSIVE scoreLoop(_, _, _, _)
scoreLoop(normalizedText, keywords, seen, matches) ==
  IF keywords = <<>> THEN [seen |-> seen, matches |-> matches]
  ELSE LET keyword == Head(keywords)
           normalized == normalizeWord(keyword)
       IN IF Len(normalized) = 0 \/ normalized \in seen
          THEN scoreLoop(normalizedText, Tail(keywords), seen, matches)
          ELSE scoreLoop(normalizedText, Tail(keywords), seen \cup {normalized},
                         IF includes(normalizedText, normalized)
                         THEN Append(matches, keyword) ELSE matches)

scoreKeywords(text, keywords) ==
  LET out == scoreLoop(toLowerCase(text), keywords, {}, <<>>)
  IN IF Len(keywords) = 0 THEN [score |-> 0, keywordsMatched |-> <<>>]
     ELSE IF Cardinality(out.seen) = 0
          \* 0 / 0 is NaN in the program; clampScore(NaN) returns Math.round(NaN) = NaN
          THEN [score |-> NoNum, keywordsMatched |-> out.matches]
          ELSE [score |-> clampScore(Len(out.matches), Cardinality(out.seen)),
                keywordsMatched |-> out.matches]

extractTextFromBuffer(buffer, mimeType) ==
  IF mimeType = DOCX THEN "" ELSE buffer.text

mapKeywords(keywords) ==
  IF keywords = <<>> THEN DEFAULT_KEYWORDS
  ELSE LET trimmed == [i \in DOMAIN keywords |-> trim(keywords[i])]
       IN SeqFilter(trimmed, {k \in Range(trimmed) : Len(k) > 0})

buildFallbackAnalysis_AllMissing(buffer, mimeType, keywords) ==
  LET text == extractTextFromBuffer(buffer, mimeType)
      outcome == scoreKeywords(text, keywords)
  IN [atsScore |-> outcome.score,
      keywords |-> [extracted |-> outcome.keywordsMatched, missing |-> keywords]]

buildFallbackAnalysis(buffer, mimeType, keywords) ==
  LET text == extractTextFromBuffer(buffer, mimeType)
      outcome == scoreKeywords(text, keywords)
      missing == SeqFilter(keywords, {k \in Range(keywords) :
                                        ~SeqContains(outcome.keywordsMatched, k)})
  IN [atsScore |-> outcome.score,
      keywords |-> [extracted |-> outcome.keywordsMatched, missing |-> missing]]

\* --------------------------------------------------------------- throttle
checkRateLimit_OffByOne(bucketMap, key, nowMs, limit, windowMs) ==
  LET InWindow(timestamp) == nowMs - timestamp < windowMs
      recent == SelectSeq(bucketMap[key], InWindow)
  IN IF Len(recent) > limit
     THEN [allowed |-> FALSE, buckets |-> [bucketMap EXCEPT ![key] = recent]]
     ELSE [allowed |-> TRUE, buckets |-> [bucketMap EXCEPT ![key] = Append(recent, nowMs)]]

checkRateLimit(bucketMap, key, nowMs, limit, windowMs) ==
  LET InWindow(timestamp) == nowMs - timestamp < windowMs
      recent == SelectSeq(bucketMap[key], InWindow)
  IN IF Len(recent) >= limit
     THEN [allowed |-> FALSE, buckets |-> [bucketMap EXCEPT ![key] = recent]]
     ELSE [allowed |-> TRUE, buckets |-> [bucketMap EXCEPT ![key] = Append(recent, nowMs)]]

rateKey(userId) == "analysis:" \o userId

\* --------------------------------------------------- route.ts pure helpers
asFallbackReason_NoProd(value) ==
  IF value \in {"QUOTA", "PARSE", "EMPTY", "SAFETY"} THEN value ELSE NULL

asFallbackReason(value) ==
  IF value \in {"QUOTA", "PARSE", "EMPTY", "EMPTY_PROD", "SAFETY"} THEN value ELSE NULL

toApiResponse(record) ==
  [id |-> record.id, cvId |-> record.cvId, atsScore |-> record.atsScore,
   keywords |-> record.keywords, usedFallback |-> record.usedFallback,
   fallbackReason |-> asFallbackReason(record.fallbackReason)]

isDocumentMime(value) ==
  LET v == toLowerCase(IF value = NULL THEN "" ELSE value)
  IN includes(v, "pdf") \/ includes(v, "word") \/ includes(v, "officedocument")

replaceFirst(s, pat, rep) ==
  IF ~includes(s, pat) THEN s
  ELSE LET i == CHOOSE k \in 0..(Len(s) - Len(pat)) :
                   /\ SubSeq(s, k + 1, k + Len(pat)) = pat
                   /\ \A j \in 0..(k - 1) : SubSeq(s, j + 1, j + Len(pat)) # pat
       IN SubSeq(s, 1, i) \o rep \o SubSeq(s, i + Len(pat) + 1, Len(s))

deliveryUrlFromCv(cv) ==
  LET url == IF cv.fileUrl # "" THEN cv.fileUrl ELSE cv.secureUrl
  IN IF url = "" THEN NULL
     ELSE IF isDocumentMime(cv.mimeType) /\ includes(url, "/image/upload/")
          THEN replaceFirst(url, "/image/upload/", "/raw/upload/")
          ELSE url

signedRawUrl(publicId) == "https://res.cloudinary.com/demo/raw/authenticated/v1/" \o publicId

storedSizeExceeds_Kilobytes(cv) == cv.fileSize \div 1024 > MAX_FILE_BYTES

storedSizeExceeds(cv) == cv.fileSize > MAX_FILE_BYTES
remoteSizeExceeds(remoteSize) == remoteSize # NoNum /\ remoteSize > MAX_FILE_BYTES
bufferExceeds_Kilobytes(buffer) == buffer.byteLength \div 1024 > MAX_FILE_BYTES
bufferExceeds(buffer) == buffer.byteLength > MAX_FILE_BYTES

classifyGeminiError_AllEmpty(err) ==
  IF err.kind = "GeminiQuotaError" THEN "QUOTA"
  ELSE IF err.kind = "GeminiParseError"
       THEN IF err.code = "EMPTY_PROD" THEN "EMPTY_PROD"
            ELSE IF err.code = "SAFETY_REJECTION" THEN "SAFETY"
            ELSE "EMPTY"
       ELSE "PARSE"

classifyGeminiError(err) ==
  IF err.kind = "GeminiQuotaError" THEN "QUOTA"
  ELSE IF err.kind = "GeminiParseError"
       THEN IF err.code = "EMPTY_OR_NON_JSON" THEN "EMPTY"
            ELSE IF err.code = "EMPTY_PROD" THEN "EMPTY_PROD"
            ELSE IF err.code = "SAFETY_REJECTION" THEN "SAFETY"
            ELSE "PARSE"
       ELSE "PARSE"

usedFallbackOf_QuotaOnly(fallbackReason) == fallbackReason = "QUOTA"

usedFallbackOf(fallbackReason) == fallbackReason # NULL

\* ------------------------------------------------------- memory repositories
analysisCreate_Twice(store, input, nowMs) ==
  LET entry == [id |-> Len(store) , cvId |-> input.cvId, userId |-> input.userId,
                atsScore |-> input.atsScore, keywords |-> input.keywords,
                usedFallback |-> input.usedFallback,
                fallbackReason |-> input.fallbackReason,
                createdAt |-> nowMs, by |-> input.by]
  IN [entry |-> entry, store |-> <<entry, entry>> \o store]

analysisCreate(store, input, nowMs) ==
  LET entry == [id |-> Len(store) , cvId |-> input.cvId, userId |-> input.userId,
                atsScore |-> input.atsScore, keywords |-> input.keywords,
                usedFallback |-> input.usedFallback,
                fallbackReason |-> input.fallbackReason,
                createdAt |-> nowMs, by |-> input.by]
  IN [entry |-> entry, store |-> <<entry>> \o store]

findLatestForCv(store, cvId, userId) ==
  LET hits == {i \in DOMAIN store : store[i].cvId = cvId /\ store[i].userId = userId}
  IN IF hits = {} THEN None
     ELSE Some(store[CHOOSE i \in hits : \A j \in hits : i <= j])

cvFindById(repo, id) == IF id \in DOMAIN repo THEN Some(repo[id]) ELSE None

updateAnalysisMeta_KeepScore(repo, cvId, atsScore, analyzedAt) ==
  IF cvId \in DOMAIN repo
  THEN [repo EXCEPT ![cvId].analyzedAt = analyzedAt]
  ELSE repo

updateAnalysisMeta(repo, cvId, atsScore, analyzedAt) ==
  IF cvId \in DOMAIN repo
  THEN [repo EXCEPT ![cvId].atsScore = atsScore, ![cvId].analyzedAt = analyzedAt]
  ELSE repo

\* ------------------------------------------------------ gemini pure helpers
\* A response text is described by how JSON.parse and RESULT_SCHEMA see its
\* trimmed body and, when it contains a fenced block, the block's content.
GEMINI_KEYWORDS == [extracted |-> <<"react", "typescript">>, missing |-> <<"aws">>]
\* integral = FALSE stands for the number atsScore + 0.5
Doc(kind, atsScore, shapeOk) ==
  [kind |-> kind, atsScore |-> atsScore, integral |-> TRUE, shapeOk |-> shapeOk]
BlankDoc == Doc("blank", NoNum, FALSE)
NonJsonDoc == Doc("nonjson", NoNum, FALSE)
JsonDoc(atsScore, shapeOk) == Doc("json", atsScore, shapeOk)
FractionalDoc(atsScore, shapeOk) == [JsonDoc(atsScore, shapeOk) EXCEPT !.integral = FALSE]
Text(body, fence) == [body |-> body, fence |-> fence]

NoErr == [kind |-> "none", code |-> "", retryAt |-> NoNum]
GeminiQuotaError(retryAt) == [kind |-> "GeminiQuotaError", code |-> "", retryAt |-> retryAt]
GeminiParseError(code) == [kind |-> "GeminiParseError", code |-> code, retryAt |-> NoNum]
ProviderError == [kind |-> "Error", code |-> "", retryAt |-> NoNum]

schemaValid_NoInt(doc) ==
  doc.kind = "json" /\ doc.atsScore >= 0 /\ doc.atsScore <= 100 /\ doc.shapeOk

schemaValid(doc) ==
  /\ doc.kind = "json"
  /\ doc.integral /\ doc.atsScore >= 0 /\ doc.atsScore <= 100
  /\ doc.shapeOk

Thrown(err) == [ok |-> FALSE, data |-> None, err |-> err]

attemptParse(doc) ==
  IF doc.kind = "blank" THEN Thrown(GeminiParseError("EMPTY_OR_NON_JSON"))
  ELSE IF doc.kind # "json" THEN Thrown(GeminiParseError("EMPTY_OR_NON_JSON"))
  ELSE IF ~schemaValid(doc) THEN Thrown(GeminiParseError("EMPTY_OR_NON_JSON"))
  ELSE [ok |-> TRUE,
        data |-> Some([atsScore |-> doc.atsScore, keywords |-> GEMINI_KEYWORDS]),
        err |-> NoErr]

stripMarkdownFence(text) ==
  IF text.fence # None /\ text.fence[1].kind # "blank" THEN text.fence ELSE None

parseGeminiJson_NoFence(text) ==
  LET first == attemptParse(text.body)
  IN IF first.ok THEN first ELSE Thrown(GeminiParseError("EMPTY_OR_NON_JSON"))

parseGeminiJson(text) ==
  LET first == attemptParse(text.body)
      stripped == stripMarkdownFence(text)
  IN IF first.ok THEN first
     ELSE IF stripped # None
     THEN LET second == attemptParse(stripped[1])
          IN IF second.ok THEN second ELSE Thrown(GeminiParseError("EMPTY_OR_NON_JSON"))
     ELSE Thrown(GeminiParseError("EMPTY_OR_NON_JSON"))

isBlank(text) == text.body.kind = "blank"

\* A payload string is a sequence of tokens: white space, prose, a fence
\* marker ```, the language tag json, or the text of one JSON document.
Tok(t, doc) == [t |-> t, doc |-> doc]
WS == Tok("ws", BlankDoc)
PROSE == Tok("prose", BlankDoc)
FENCE == Tok("fence", BlankDoc)
TAG == Tok("tag", BlankDoc)
JsonTok(doc) == Tok("doc", doc)

\* String.prototype.trim on a payload
trimTokens(seq) ==
  LET solid == {i \in DOMAIN seq : seq[i] # WS}
  IN IF solid = {} THEN <<>>
     ELSE SubSeq(seq, CHOOSE i \in solid : \A j \in solid : i <= j,
                      CHOOSE i \in solid : \A j \in solid : j <= i)

\* what source.trim() and JSON.parse make of a string
jsonView(seq) ==
  LET trimmed == trimTokens(seq)
  IN IF trimmed = <<>> THEN BlankDoc
     ELSE IF Len(trimmed) = 1 /\ trimmed[1].t = "doc" THEN trimmed[1].doc
     ELSE NonJsonDoc

\* value.match(/```(?:json)?\s*([\s\S]*?)```/i): the captured group, or None
\* when nothing matches or the group is empty
fenceView(seq) ==
  LET fences == {i \in DOMAIN seq : seq[i] = FENCE}
  IN IF Cardinality(fences) < 2 THEN None
     ELSE LET open == CHOOSE i \in fences : \A j \in fences : i <= j
              afterTag == IF seq[open + 1] = TAG THEN open + 2 ELSE open + 1
              rest == {i \in afterTag..Len(seq) : seq[i] # WS}
              from == CHOOSE i \in rest : \A j \in rest : i <= j
              close == CHOOSE i \in fences : i >= from /\ \A j \in fences : j >= from => i <= j
          IN IF from = close THEN None
             ELSE Some(jsonView(SubSeq(seq, from, close - 1)))

readPayload(seq) == Text(jsonView(seq), fenceView(seq))

shouldRetry_BlankOnly(outcome) == isBlank(outcome.text)

shouldRetry(outcome) ==
  IF isBlank(outcome.text) THEN TRUE
  ELSE IF outcome.finishReason # "" /\ outcome.finishReason # "STOP" THEN TRUE
  ELSE FALSE

backoffMs(hint) == Min(IF hint = NoNum THEN DEFAULT_RETRY_MS ELSE hint, MAX_BACKOFF_MS)

emptyCode_NonProd(isProd) == "EMPTY_OR_NON_JSON"

emptyCode(isProd) == IF isProd THEN "EMPTY_PROD" ELSE "EMPTY_OR_NON_JSON"


\* runModelRequest: what its catch block throws for a status other than 429
thrownFor_Rethrow(status) == ProviderError

thrownFor(status) ==
  IF status = 400 THEN GeminiParseError("SAFETY_REJECTION") ELSE ProviderError

\* ------------------------------------------------------------ input domains
SampleText == "javascript react node"
SmallBuffer == [byteLength |-> 1024, text |-> SampleText]
BigBuffer == [byteLength |-> MAX_FILE_BYTES + 1, text |-> SampleText]
EmptyBuffer == [byteLength |-> 0, text |-> ""]

RawUrl == "https://res.cloudinary.com/demo/raw/upload/v1/sample.pdf"
LegacyUrl == "https://res.cloudinary.com/demo/image/upload/v1/sample.pdf"

Cv(fileSize, mimeType, fileUrl, secureUrl, publicId) ==
  [id |-> "cv1", userId |-> "u1", fileSize |-> fileSize, mimeType |-> mimeType,
   fileUrl |-> fileUrl, secureUrl |-> secureUrl, publicId |-> publicId,
   atsScore |-> NoNum, analyzedAt |-> NoNum]

InitCvs ==
  { Cv(2048, PDF, "", RawUrl, "cvats/sample"),
    Cv(2048, PDF, LegacyUrl, "", NULL),
    Cv(MAX_FILE_BYTES, DOCX, "", "", "cvats/sample"),
    Cv(MAX_FILE_BYTES + 1, PDF, "", RawUrl, "cvats/sample") }

KeywordInputs == { <<>>, <<" React", "react", "aws ">> }
InlineInputs ==
  { None,
    \* Buffer.from skips the characters that are not base64
    Some([validFormat |-> FALSE, buffer |-> SmallBuffer]),
    Some([validFormat |-> TRUE, buffer |-> SmallBuffer]),
    Some([validFormat |-> TRUE, buffer |-> BigBuffer]) }
Payloads ==
  [cvId : {"cv1", "missing"}, keywords : KeywordInputs, inline : InlineInputs,
   mimeType : {NULL}]

HeadOutcomes == [ok : BOOLEAN, contentLength : {NoNum, 1024, MAX_FILE_BYTES + 1}]
DownloadOutcomes ==
  { [ok |-> TRUE, buffer |-> SmallBuffer, mime |-> PDF],
    [ok |-> TRUE, buffer |-> EmptyBuffer, mime |-> NULL],
    [ok |-> TRUE, buffer |-> BigBuffer, mime |-> PDF],
    [ok |-> FALSE, buffer |-> EmptyBuffer, mime |-> NULL] }

Texts ==
  { Text(BlankDoc, None),
    Text(JsonDoc(83, TRUE), None),
    Text(NonJsonDoc, Some(JsonDoc(78, TRUE))),
    Text(NonJsonDoc, None),
    Text(JsonDoc(101, TRUE), None) }
RetryHints == {NoNum, 2000, 9000}
GenOk(text, finishReason) ==
  [tag |-> "ok", text |-> text, finishReason |-> finishReason, status |-> 200, hint |-> NoNum]
GenErr(status, hint) ==
  [tag |-> "err", text |-> Text(BlankDoc, None), finishReason |-> "", status |-> status,
   hint |-> hint]
GenOutcomes ==
  {GenOk(t, "STOP") : t \in Texts}
    \cup {GenOk(Text(JsonDoc(83, TRUE), None), "MAX_TOKENS"),
          GenOk(Text(BlankDoc, None), "UNKNOWN")}
    \cup {GenErr(429, h) : h \in RetryHints}
    \cup {GenErr(400, NoNum), GenErr(500, NoNum)}

FileMeta(name, uri, state) == [name |-> name, uri |-> uri, state |-> state]
UploadOutcomes ==
  [ok : {TRUE}, file : {FileMeta(n, u, st) : n \in {NULL, "files/test"},
                                              u \in {NULL, "files/test"},
                                              st \in {"ACTIVE", "PROCESSING"}}]
    \cup {[ok |-> FALSE, file |-> FileMeta(NULL, NULL, "FAILED")]}
PollOutcomes == {"active", "pending", "throw"}

PayloadDocs ==
  { JsonDoc(83, TRUE), FractionalDoc(83, TRUE), JsonDoc(101, TRUE), JsonDoc(-5, TRUE),
    JsonDoc(50, FALSE) }
Tokens == {WS, PROSE, FENCE, TAG} \cup {JsonTok(d) : d \in PayloadDocs}
PayloadStrings == UNION {[1..n -> Tokens] : n \in 0..MaxTokens}

\* --------------------------------------------------------------------- state
VARIABLES
  env,      \* process environment: NODE_ENV = production?, GOOGLE_GEMINI_API_KEY set?
  now,      \* Date.now()
  buckets,  \* rate-limit.ts: Map key -> timestamps
  history,  \* analysis repository store, newest first
  cvs,      \* cv repository: id -> record
  req,      \* per request slot: position in POST and its locals
  call      \* a single call of an exported pure function: input and outcome

vars == <<env, now, buckets, history, cvs, req, call>>

StartTime == WINDOW_MS

IdleReq ==
  [pc |-> "off", status |-> 0, user |-> NULL, forceAuth |-> FALSE,
   cvId |-> NULL, keywords |-> <<>>, inline |-> None, inlineMime |-> NULL,
   downloadUrl |-> NULL, finalUrl |-> NULL, remoteSize |-> NoNum,
   fileDownload |-> None, keywordList |-> <<>>, mimeType |-> NULL,
   phase |-> 0, deadline |-> NoNum, timeoutMs |-> NoNum, timerAt |-> NoNum,
   wakeAt |-> NoNum, retryMs |-> NoNum, attempts |-> 0, fileMeta |-> None,
   geminiResult |-> None, err |-> NoErr, fallbackReason |-> NULL,
   result |-> None, created |-> None, response |-> None,
   \* history of the request's outbound calls
   heads |-> <<>>, okHeads |-> {}, publicHead |-> None, gets |-> <<>>,
   signerCalls |-> 0, geminiCalls |-> 0,
   genCalls |-> 0, uploads |-> 0, polls |-> 0, deletes |-> 0, scorerCalls |-> 0,
   metaUpdates |-> 0, p1 |-> None, p2 |-> None, p1Expired |-> FALSE,
   first429 |-> FALSE, sourceFailure |-> "",
   quotaAt |-> NoNum, quotaHint |-> NoNum, quotaDelay |-> NoNum, saw400 |-> 0,
   late |-> FALSE, stored |-> FALSE, activeSeen |-> FALSE]

NoCall == [fn |-> "none"]

Bucket(n, timestamp) == [i \in 1..n |-> timestamp]
InitBuckets ==
  { Bucket(LIMIT - 1, StartTime - 1000), Bucket(LIMIT, StartTime - 1000) }

PriorRecord ==
  [id |-> 0, cvId |-> "cv1", userId |-> "u1", atsScore |-> 40,
   keywords |-> [extracted |-> <<>>, missing |-> <<>>], usedFallback |-> FALSE,
   fallbackReason |-> NULL, createdAt |-> StartTime - WINDOW_MS, by |-> 0]

Init ==
  /\ env \in [isProd : BOOLEAN, hasKey : BOOLEAN]
  /\ now = StartTime
  /\ \E b \in InitBuckets : buckets = [k \in {rateKey(u) : u \in Users} |->
                                         IF k = rateKey("u1") THEN b ELSE <<>>]
  /\ \E cv \in InitCvs : \E analysed \in {cv.mimeType = PDF /\ cv.fileUrl = ""} :
       /\ cvs = [id \in {"cv1"} |->
                   IF analysed
                   THEN [cv EXCEPT !.atsScore = PriorRecord.atsScore,
                                   !.analyzedAt = PriorRecord.createdAt]
                   ELSE cv]
       /\ history = IF analysed THEN <<PriorRecord>> ELSE <<>>
  /\ req = [r \in Reqs |-> IF r = 1 THEN [IdleReq EXCEPT !.pc = "start"] ELSE IdleReq]
  /\ call = NoCall

Respond(me, status) == [me EXCEPT !.pc = "done", !.status = status]
\* a response that ends document source resolution without bytes
SourceFail(me, status, why) == [Respond(me, status) EXCEPT !.sourceFailure = why]

\* ------------------------------------------- analyzeWithGeminiFile: settling
\* The route's try/catch around analyzeWithGeminiFile and the code up to the
\* next await: either result = geminiResult and the create call, or the
\* classified reason and the call of buildFallbackAnalysis.
Settle(me, data, err, nowMs) ==
  LET cleared == [me EXCEPT !.late = me.deadline # NoNum /\ nowMs > me.deadline,
                            !.phase = 0, !.deadline = NoNum, !.timeoutMs = NoNum,
                            !.timerAt = NoNum, !.wakeAt = NoNum, !.retryMs = NoNum,
                            !.attempts = 0, !.fileMeta = None, !.activeSeen = FALSE]
  IN IF err.kind = "none"
     THEN [cleared EXCEPT !.geminiResult = data, !.result = data, !.pc = "persist"]
     ELSE [cleared EXCEPT !.err = err, !.fallbackReason = classifyGeminiError(err),
                          !.pc = "fallback"]

\* if (!shouldRetry(outcome)) return parseGeminiJson(outcome.text)
ReturnParsed(me, outcome, nowMs) ==
  LET parsed == parseGeminiJson(outcome.text)
  IN Settle(me, parsed.data, parsed.err, nowMs)

\* runModelRequest called: generateContent issued and the timeout timer armed
IssueGenerate(me, phase, timeoutMs, nowMs) ==
  [me EXCEPT !.pc = "gen_wait", !.phase = phase, !.genCalls = @ + 1,
             !.timeoutMs = timeoutMs,
             !.timerAt = IF timeoutMs # NoNum /\ timeoutMs > 0
                         THEN nowMs + timeoutMs ELSE NoNum,
             !.wakeAt = NoNum]

ensureTimeRemaining_NoCheck(deadline, nowMs) == NoNum

\* ensureTimeRemaining: NoNum without deadline, 0 when it throws TIMEOUT
ensureTimeRemaining(deadline, nowMs) ==
  IF deadline = NoNum THEN NoNum
  ELSE IF deadline - nowMs <= 0 THEN 0
  ELSE deadline - nowMs

\* analyzeWithGeminiFile up to its first await
StartGemini(me, nowMs) ==
  LET deadline == IF env.isProd THEN nowMs + PROD_ANALYSIS_TIMEOUT_MS ELSE NoNum
      started == [me EXCEPT !.deadline = deadline, !.geminiCalls = @ + 1]
      inlineTimeout == ensureTimeRemaining(deadline, nowMs)
  IN IF inlineTimeout = 0
     THEN Settle(started, None, GeminiParseError("TIMEOUT"), nowMs)
     ELSE IssueGenerate(started, 1, inlineTimeout, nowMs)

\* lines 325-384 of POST once fileDownload is known
AfterBytes(me, cv, nowMs) ==
  IF remoteSizeExceeds(me.remoteSize) THEN Respond(me, 413)
  ELSE IF bufferExceeds(me.fileDownload[1].buffer) THEN Respond(me, 413)
  ELSE LET m == me.fileDownload[1].mime
           \* locals that are not read again, the probe outcomes among them,
           \* are dropped
           ready == [me EXCEPT !.keywordList = mapKeywords(me.keywords),
                               !.okHeads = {}, !.publicHead = None,
                               !.mimeType = IF m # NULL THEN m ELSE cv.mimeType,
                               !.keywords = <<>>, !.inlineMime = NULL,
                               !.forceAuth = FALSE, !.downloadUrl = NULL,
                               !.finalUrl = NULL, !.remoteSize = NoNum,
                               !.fileDownload = Some([buffer |-> me.fileDownload[1].buffer,
                                                      mime |-> NULL])]
       IN IF env.hasKey THEN StartGemini(ready, nowMs)
          ELSE [ready EXCEPT !.fallbackReason = "PARSE", !.pc = "fallback"]

\* ------------------------------------------------------------ POST: actions
Upd(r, rec) == req' = [req EXCEPT ![r] = rec]

\* getAuthSession resolves; checkRateLimit; forceAuthenticatedDelivery
Authenticate(r) ==
  /\ req[r].pc = "start"
  /\ \E user \in Users \cup {NULL} : \E forceHeader \in BOOLEAN :
       IF user = NULL
       THEN /\ Upd(r, Respond(req[r], 401))
            /\ UNCHANGED buckets
       ELSE LET rl == checkRateLimit(buckets, rateKey(user), now, LIMIT, WINDOW_MS)
            IN /\ buckets' = rl.buckets
               /\ IF ~rl.allowed
                  THEN Upd(r, Respond([req[r] EXCEPT !.user = user], 429))
                  ELSE Upd(r, [req[r] EXCEPT !.user = user, !.pc = "json",
                                             !.forceAuth = ~env.isProd /\ forceHeader])
  /\ UNCHANGED <<call, env, now, history, cvs>>

\* request.json() resolves; postSchema.safeParse; cvRepository.findById issued
ParsePayload(r) ==
  /\ req[r].pc = "json"
  /\ \/ Upd(r, Respond(req[r], 400))
     \/ \E payload \in Payloads :
          Upd(r, [req[r] EXCEPT !.cvId = payload.cvId, !.keywords = payload.keywords,
                                !.inline = payload.inline,
                                !.inlineMime = payload.mimeType, !.pc = "findCv"])
  /\ UNCHANGED <<call, env, now, buckets, history, cvs>>

\* the inline payload is not base64 or decodes to no bytes
inlineRejected_EmptyOnly(inline) == inline.buffer.byteLength = 0
inlineRejected(inline) == ~inline.validFormat \/ inline.buffer.byteLength = 0

\* findById resolves; ownership and stored-size checks; inline bytes or the
\* public HEAD probe
FindCv(r) ==
  /\ req[r].pc = "findCv"
  /\ LET me == req[r]
         found == cvFindById(cvs, me.cvId)
     IN IF found = None \/ found[1].userId # me.user
        THEN Upd(r, Respond(me, 404))
        ELSE LET cv == found[1]
             IN IF storedSizeExceeds(cv) THEN Upd(r, Respond(me, 413))
                ELSE IF me.inline # None
                THEN LET inline == me.inline[1]
                     IN IF inlineRejected(inline) THEN Upd(r, Respond(me, 400))
                        ELSE Upd(r, AfterBytes(
                               [me EXCEPT !.remoteSize = inline.buffer.byteLength,
                                          !.fileDownload =
                                             Some([buffer |-> inline.buffer,
                                                   mime |-> IF me.inlineMime # NULL
                                                            THEN me.inlineMime
                                                            ELSE cv.mimeType])],
                               cv, now))
                ELSE LET downloadUrl == deliveryUrlFromCv(cv)
                     IN IF downloadUrl = NULL THEN Upd(r, SourceFail(me, 502, "MISSING_URL"))
                        ELSE Upd(r, [me EXCEPT !.downloadUrl = downloadUrl,
                                               !.heads = Append(@, downloadUrl),
                                               !.pc = "publicHead"])
  /\ UNCHANGED <<call, env, now, buckets, history, cvs>>

\* the public probe answered ok and reported a positive size
publicUsable_Never(publicHead) == FALSE
publicUsable(publicHead) ==
  publicHead.ok /\ publicHead.contentLength # NoNum /\ publicHead.contentLength > 0

\* fetchCvBinary(finalUrl) issued after the remote size check
IssueDownload(me) ==
  IF remoteSizeExceeds(me.remoteSize) THEN Respond(me, 413)
  ELSE IF me.finalUrl = NULL THEN SourceFail(me, 502, "MISSING_URL")
  ELSE [me EXCEPT !.gets = Append(@, me.finalUrl), !.pc = "download"]

\* the public HEAD settles; on an inaccessible asset the signed URL is derived
\* and probed
PublicHead(r) ==
  /\ req[r].pc = "publicHead"
  /\ LET me == req[r]
         cv == cvs[me.cvId]
     IN \/ Upd(r, SourceFail(me, 500, "PUBLIC_HEAD_REJECTED"))  \* fetch rejects, no try block
        \/ \E raw \in HeadOutcomes :
             LET publicHead == IF me.forceAuth
                               THEN [ok |-> FALSE, contentLength |-> NoNum] ELSE raw
                 probed == [me EXCEPT !.finalUrl = me.downloadUrl,
                                      !.remoteSize = publicHead.contentLength,
                                      !.publicHead = Some([ok |-> raw.ok,
                                                         contentLength |-> raw.contentLength,
                                                         forced |-> me.forceAuth]),
                                      !.okHeads =
                                         IF publicHead.ok
                                         THEN @ \cup {[url |-> me.downloadUrl,
                                                       contentLength |->
                                                         publicHead.contentLength]}
                                         ELSE @]
             IN IF ~publicUsable(publicHead)
                THEN IF cv.publicId = NULL
                     THEN Upd(r, SourceFail(probed, 502, "PUBLIC_ID_MISSING"))
                     ELSE \/ Upd(r, SourceFail([probed EXCEPT !.signerCalls = @ + 1], 502,
                                               "SIGNED_URL_FAILURE"))
                          \/ LET signedUrl == signedRawUrl(cv.publicId)
                             IN Upd(r, [probed EXCEPT !.signerCalls = @ + 1,
                                                      !.finalUrl = signedUrl,
                                                      !.heads = Append(@, signedUrl),
                                                      !.pc = "authHead"])
                ELSE Upd(r, IssueDownload(probed))
  /\ UNCHANGED <<call, env, now, buckets, history, cvs>>

\* the authenticated HEAD settles
AuthHead(r) ==
  /\ req[r].pc = "authHead"
  /\ LET me == req[r]
     IN \/ Upd(r, SourceFail(me, 502, "AUTH_HEAD_REJECTED"))  \* fetch rejects inside try
        \/ \E authHead \in HeadOutcomes :
             IF ~authHead.ok THEN Upd(r, SourceFail(me, 502, "AUTH_HEAD_FAILED"))
             ELSE Upd(r, IssueDownload([me EXCEPT !.remoteSize = authHead.contentLength,
                                                  !.okHeads =
                                                     @ \cup {[url |-> me.finalUrl,
                                                               contentLength |->
                                                                 authHead.contentLength]}]))
  /\ UNCHANGED <<call, env, now, buckets, history, cvs>>

\* fetchCvBinary settles
Download(r) ==
  /\ req[r].pc = "download"
  /\ LET me == req[r]
     IN \E dl \in DownloadOutcomes :
          IF ~dl.ok THEN Upd(r, SourceFail(me, 502, "FETCH_FAILED"))
          ELSE Upd(r, AfterBytes([me EXCEPT !.fileDownload =
                                      Some([buffer |-> dl.buffer, mime |-> dl.mime])],
                                 cvs[me.cvId], now))
  /\ UNCHANGED <<call, env, now, buckets, history, cvs>>

\* extractTextFromBuffer resolves; scoreKeywords; analysisRepository.create issued
BuildFallback(r) ==
  /\ req[r].pc = "fallback"
  /\ LET me == req[r]
         fallback == buildFallbackAnalysis(me.fileDownload[1].buffer, me.mimeType,
                                           me.keywordList)
     IN Upd(r, [me EXCEPT !.result = Some(fallback), !.scorerCalls = @ + 1,
                          !.fallbackReason = IF me.geminiResult = None /\ @ = NULL
                                             THEN "PARSE" ELSE @,
                          !.pc = "persist"])
  /\ UNCHANGED <<call, env, now, buckets, history, cvs>>

\* analysisRepository.create
Persist(r) ==
  /\ req[r].pc = "persist"
  /\ LET me == req[r]
         usedFallback == usedFallbackOf(me.fallbackReason)
         out == analysisCreate(history,
                  [cvId |-> me.cvId, userId |-> me.user,
                   atsScore |-> me.result[1].atsScore, keywords |-> me.result[1].keywords,
                   usedFallback |-> usedFallback,
                   fallbackReason |-> IF usedFallback THEN me.fallbackReason ELSE NULL,
                   by |-> r], now)
     IN /\ history' = out.store
        /\ Upd(r, [me EXCEPT !.created = Some(out.entry), !.pc = "update"])
  /\ UNCHANGED <<call, env, now, buckets, cvs>>

\* cvRepository.updateAnalysisMeta, then the 201 response
UpdateMeta(r) ==
  /\ req[r].pc = "update"
  /\ LET me == req[r]
     IN /\ cvs' = updateAnalysisMeta(cvs, me.cvId, me.result[1].atsScore, now)
        /\ Upd(r, [Respond(me, 201) EXCEPT !.metaUpdates = @ + 1,
                                           !.response = Some(toApiResponse(me.created[1]))])
  /\ UNCHANGED <<call, env, now, buckets, history>>

\* ------------------------------------------- analyzeWithGeminiFile: actions
\* what the request remembers of an attempt's outcome
Seen(outcome) ==
  [blank |-> isBlank(outcome.text), finishReason |-> outcome.finishReason,
   text |-> outcome.text]

\* finally { void manager.deleteFile(fileName) } of runFileUploadAttempt
Cleanup(me) == IF me.phase = 2 THEN [me EXCEPT !.deletes = @ + 1] ELSE me

\* the file-referencing request, or the MISSING_URI outcome
SubmitFileRequest(me, fileName, fileUri, nowMs) ==
  IF fileName = NULL \/ fileUri = NULL
  THEN LET outcome == [text |-> Text(BlankDoc, None), finishReason |-> "MISSING_URI"]
           noted == [me EXCEPT !.p2 = Some(Seen(outcome))]
       IN IF ~shouldRetry(outcome) THEN ReturnParsed(noted, outcome, nowMs)
          ELSE Settle(noted, None, GeminiParseError(emptyCode(env.isProd)), nowMs)
  ELSE IssueGenerate(me, 2, me.timeoutMs, nowMs)

\* model.generateContent settles before the timer fires
GenResult(r) ==
  /\ req[r].pc = "gen_wait"
  /\ LET me == req[r]
     IN \E o \in GenOutcomes :
          IF o.tag = "ok"
          THEN LET outcome == [text |-> o.text, finishReason |-> o.finishReason]
               IN IF me.phase = 1
                  THEN LET noted == [me EXCEPT !.p1 = Some(Seen(outcome)),
                                               !.p1Expired = me.deadline # NoNum
                                                             /\ now >= me.deadline]
                       IN IF ~shouldRetry(outcome) THEN Upd(r, ReturnParsed(noted, outcome, now))
                          ELSE LET fileTimeout == ensureTimeRemaining(me.deadline, now)
                               IN IF fileTimeout = 0
                                  THEN Upd(r, Settle(noted, None, GeminiParseError("TIMEOUT"), now))
                                  ELSE Upd(r, [noted EXCEPT !.pc = "upload", !.phase = 2,
                                                            !.uploads = @ + 1,
                                                            !.timeoutMs = fileTimeout,
                                                            !.timerAt = NoNum])
                  ELSE LET noted == Cleanup([me EXCEPT !.p2 = Some(Seen(outcome))])
                       IN IF ~shouldRetry(outcome) THEN Upd(r, ReturnParsed(noted, outcome, now))
                          ELSE Upd(r, Settle(noted, None,
                                             GeminiParseError(emptyCode(env.isProd)), now))
          ELSE IF o.status = 429
          THEN LET retryMs == backoffMs(o.hint)
               IN Upd(r, [me EXCEPT !.pc = "gen_sleep", !.retryMs = retryMs,
                                    !.wakeAt = now + retryMs,
                                    !.quotaAt = now, !.quotaHint = o.hint,
                                    !.quotaDelay = retryMs,
                                    !.first429 = @ \/ me.phase = 1])
          ELSE Upd(r, Settle(Cleanup([me EXCEPT !.saw400 = IF o.status = 400
                                                           THEN me.phase ELSE @]),
                             None, thrownFor(o.status), now))
  /\ UNCHANGED <<call, env, now, buckets, history, cvs>>

\* sleep(retryMs) after a 429 is over: GeminiQuotaError
GenWake(r) ==
  /\ req[r].pc = "gen_sleep"
  /\ now >= req[r].wakeAt
  /\ Upd(r, Settle(Cleanup(req[r]), None, GeminiQuotaError(now + req[r].retryMs), now))
  /\ UNCHANGED <<call, env, now, buckets, history, cvs>>

\* the timeout timer of runModelRequest wins the race
GenTimeout(r) ==
  /\ req[r].pc \in {"gen_wait", "gen_sleep"}
  /\ req[r].timerAt # NoNum
  /\ now >= req[r].timerAt
  /\ Upd(r, Settle(Cleanup(req[r]), None, GeminiParseError("TIMEOUT"), now))
  /\ UNCHANGED <<call, env, now, buckets, history, cvs>>

\* manager.uploadFile settles; ensureFileActive up to its first sleep
UploadResult(r) ==
  /\ req[r].pc = "upload"
  /\ LET me == req[r]
     IN \E up \in UploadOutcomes :
          IF ~up.ok THEN Upd(r, Settle(me, None, ProviderError, now))
          ELSE LET file == up.file
                   kept == [me EXCEPT !.stored = file.name # NULL,
                                      !.activeSeen = file.state = "ACTIVE"]
               IN IF file.name = NULL
                  THEN Upd(r, SubmitFileRequest(kept, file.name, file.uri, now))
                  ELSE IF file.state = "ACTIVE" /\ file.uri # NULL
                  THEN Upd(r, SubmitFileRequest(kept, file.name, file.uri, now))
                  ELSE Upd(r, [kept EXCEPT !.pc = "poll", !.fileMeta = Some(file),
                                         !.attempts = 1,
                                         !.wakeAt = now + POLL_STEP_MS * 1])
  /\ UNCHANGED <<call, env, now, buckets, history, cvs>>

\* while (attempts < 5) of ensureFileActive
pollAgain_Forever(attempts) == TRUE
pollAgain(attempts) == attempts < MAX_POLL_ATTEMPTS

\* sleep(200 * attempts) is over and manager.getFile settles
PollResult(r) ==
  /\ req[r].pc = "poll"
  /\ now >= req[r].wakeAt
  /\ LET me == [req[r] EXCEPT !.polls = @ + 1]
         file == me.fileMeta[1]
     IN \E poll \in PollOutcomes :
          IF poll = "active"
          THEN Upd(r, SubmitFileRequest([me EXCEPT !.activeSeen = TRUE], file.name,
                                        "files/test", now))
          ELSE IF poll = "throw" THEN Upd(r, SubmitFileRequest(me, file.name, file.uri, now))
          ELSE IF pollAgain(me.attempts)
          THEN Upd(r, [me EXCEPT !.attempts = @ + 1,
                                 !.wakeAt = now + POLL_STEP_MS * (me.attempts + 1)])
          ELSE Upd(r, SubmitFileRequest(me, file.name, file.uri, now))
  /\ UNCHANGED <<call, env, now, buckets, history, cvs>>

\* ---------------------------------------------------------------- the clock
\* The handler reads the clock in checkRateLimit, in the Gemini client and for
\* the record timestamps; time advances while a provider call, sleep or poll
\* of the Gemini client is pending.  A timeout timer that is due fires
\* before more time passes.
TimerDue(r) ==
  /\ req[r].pc \in {"gen_wait", "gen_sleep"}
  /\ req[r].timerAt # NoNum
  /\ now >= req[r].timerAt

Tick ==
  /\ now + TickMs <= StartTime + MaxElapsed
  /\ \A r \in Reqs : ~TimerDue(r)
  /\ \E r \in Reqs : req[r].pc \in {"gen_wait", "gen_sleep", "upload", "poll"}
  /\ now' = now + TickMs
  /\ UNCHANGED <<call, env, buckets, history, cvs, req>>

Next ==
  \/ \E r \in Reqs :
       \/ Authenticate(r) \/ ParsePayload(r) \/ FindCv(r)
       \/ PublicHead(r) \/ AuthHead(r) \/ Download(r)
       \/ GenResult(r) \/ GenWake(r) \/ GenTimeout(r)
       \/ UploadResult(r) \/ PollResult(r)
       \/ BuildFallback(r) \/ Persist(r) \/ UpdateMeta(r)
  \/ Tick

Spec == Init /\ [][Next]_vars

\* ------------------------------------------ analyzeWithGeminiFile on its own
\* One call of analyzeWithGeminiFile, from its entry to its return or throw:
\* the request has passed the inline branch of POST with 1024 valid bytes.
ClientEntry(nowMs) ==
  LET cv == Cv(2048, PDF, "", RawUrl, "cvats/sample")
      inline == [validFormat |-> TRUE, buffer |-> SmallBuffer]
  IN AfterBytes([IdleReq EXCEPT !.pc = "findCv", !.user = "u1", !.cvId = "cv1",
                                !.inline = Some(inline),
                                !.remoteSize = inline.buffer.byteLength,
                                !.fileDownload = Some([buffer |-> inline.buffer,
                                                       mime |-> cv.mimeType])],
                cv, nowMs)

InitClient ==
  /\ env \in [isProd : BOOLEAN, hasKey : {TRUE}]
  /\ now = StartTime
  /\ buckets = [k \in {rateKey(u) : u \in Users} |->
                  IF k = rateKey("u1")
                  THEN Append(Bucket(LIMIT - 1, StartTime - 1000), StartTime) ELSE <<>>]
  /\ cvs = [id \in {"cv1"} |->
              [Cv(2048, PDF, "", RawUrl, "cvats/sample")
                 EXCEPT !.atsScore = PriorRecord.atsScore,
                        !.analyzedAt = PriorRecord.createdAt]]
  /\ history = <<PriorRecord>>
  /\ call = NoCall
  /\ req = [r \in Reqs |-> IF r = 1 THEN ClientEntry(now) ELSE IdleReq]

NextClient ==
  \/ \E r \in Reqs :
       \/ GenResult(r) \/ GenWake(r) \/ GenTimeout(r)
       \/ UploadResult(r) \/ PollResult(r)
  \/ Tick

\* every pending provider call returns or fails, every sleep ends and every
\* timer fires
ClientFairness ==
  /\ WF_vars(Tick)
  /\ \A r \in Reqs :
       /\ WF_vars(GenResult(r)) /\ WF_vars(GenWake(r)) /\ WF_vars(GenTimeout(r))
       /\ WF_vars(UploadResult(r)) /\ WF_vars(PollResult(r))

SpecClient == InitClient /\ [][NextClient]_vars /\ ClientFairness


\* ------------------------------------------------------ concurrent requests
\* Two requests run POST at the same time on a deployment without a Gemini
\* key, so each request resolves its bytes, scores them with the keyword
\* fallback, persists and updates the CV; the handlers interleave at their
\* await points.
Concurrent == {r \in Reqs : r <= 2}

InitConc ==
  /\ env \in [isProd : BOOLEAN, hasKey : {FALSE}]
  /\ now = StartTime
  /\ \E used \in {LIMIT - 2, LIMIT - 1} :
       buckets = [k \in {rateKey(u) : u \in Users} |->
                    IF k = rateKey("u1") THEN Bucket(used, StartTime - 1000) ELSE <<>>]
  /\ cvs = [id \in {"cv1"} |->
              [Cv(2048, PDF, "", RawUrl, "cvats/sample")
                 EXCEPT !.atsScore = PriorRecord.atsScore,
                        !.analyzedAt = PriorRecord.createdAt]]
  /\ history = <<PriorRecord>>
  /\ call = NoCall
  /\ req = [r \in Reqs |-> IF r \in Concurrent THEN [IdleReq EXCEPT !.pc = "start"]
                           ELSE IdleReq]

NextConc ==
  \E r \in Reqs :
    \/ Authenticate(r) \/ ParsePayload(r) \/ FindCv(r)
    \/ PublicHead(r) \/ AuthHead(r) \/ Download(r)
    \/ BuildFallback(r) \/ Persist(r) \/ UpdateMeta(r)

SpecConc == InitConc /\ [][NextConc]_vars


\* ------------------------------------------- calls of the pure functions
\* everything but the call stays as it is
Frozen ==
  /\ env = [isProd |-> FALSE, hasKey |-> FALSE]
  /\ now = StartTime
  /\ buckets = [k \in {rateKey(u) : u \in Users} |-> <<>>]
  /\ history = <<>>
  /\ cvs = <<>>
  /\ req = [r \in Reqs |-> IdleReq]

InitParse ==
  /\ Frozen
  /\ \E payload \in PayloadStrings :
       call = [fn |-> "parseGeminiJson", payload |-> payload, done |-> FALSE,
               out |-> Thrown(NoErr)]

ParseCall ==
  /\ call.fn = "parseGeminiJson" /\ ~call.done
  /\ call' = [call EXCEPT !.done = TRUE,
                          !.out = parseGeminiJson(readPayload(call.payload))]
  /\ UNCHANGED <<env, now, buckets, history, cvs, req>>

SpecParse == InitParse /\ [][ParseCall]_vars

\* scoreKeywords called on a text and a keyword list
ScoreTexts == {"", SampleText, "React and TypeScript"}
ScoreWords == {"react", " React ", "TYPESCRIPT", "aws", " ", ""}
ScoreLists == UNION {[1..n -> ScoreWords] : n \in 0..MaxKeywords}

InitScore ==
  /\ Frozen
  /\ \E text \in ScoreTexts : \E keywords \in ScoreLists :
       call = [fn |-> "scoreKeywords", text |-> text, keywords |-> keywords,
               done |-> FALSE, out |-> [score |-> 0, keywordsMatched |-> <<>>]]

ScoreCall ==
  /\ call.fn = "scoreKeywords" /\ ~call.done
  /\ call' = [call EXCEPT !.done = TRUE,
                          !.out = scoreKeywords(call.text, call.keywords)]
  /\ UNCHANGED <<env, now, buckets, history, cvs, req>>

SpecScore == InitScore /\ [][ScoreCall]_vars

\* checkRateLimit called with the default limit and window, at non-decreasing
\* times; call.log keeps the times of the calls that were allowed, per key
RateKeys == {rateKey(u) : u \in Users}

InitRate ==
  /\ Frozen
  /\ call = [fn |-> "checkRateLimit", n |-> 0, denied |-> 0, key |-> NULL,
             allowed |-> FALSE, log |-> [k \in RateKeys |-> <<>>]]

RateCall ==
  /\ call.fn = "checkRateLimit" /\ call.n < MaxCalls
  /\ \E key \in RateKeys :
       LET rl == checkRateLimit(buckets, key, now, LIMIT, WINDOW_MS)
       IN /\ buckets' = rl.buckets
          /\ call' = [call EXCEPT !.n = @ + 1, !.key = key, !.allowed = rl.allowed,
                                  !.denied = IF rl.allowed THEN @ ELSE @ + 1,
                                  !.log[key] = IF rl.allowed THEN Append(@, now) ELSE @]
  /\ UNCHANGED <<env, now, history, cvs, req>>

RateTick ==
  /\ call.fn = "checkRateLimit"
  /\ now + RateStepMs <= StartTime + MaxRateSteps * RateStepMs
  /\ now' = now + RateStepMs
  /\ UNCHANGED <<call, env, buckets, history, cvs, req>>

NextRate == RateCall \/ RateTick

SpecRate == InitRate /\ [][NextRate]_vars

\* =================================================================== claims
RecordsBy(r) == {i \in DOMAIN history : history[i].by = r}
ErrorStatuses == {401, 429, 400, 404, 413, 502}
Done(r) == req[r].pc = "done"
RemoteFailed(r) == req[r].err.kind # "none"

\* C1: once the bytes are resolved and a credential is configured, every
\* failure of the remote analysis call (quota, any parse error code, safety
\* rejection, unexpected error) ends the request with 201, a keyword-fallback
\* result with usedFallback = TRUE and a persisted record; it never ends with
\* an error response.
C1_RemoteFailureFallsBack ==
  \A r \in Reqs :
    RemoteFailed(r) =>
      /\ req[r].pc \in {"fallback", "persist", "update", "done"}
      /\ req[r].geminiCalls = 1
      /\ req[r].created # None =>
           /\ req[r].created[1].usedFallback = TRUE
           /\ req[r].scorerCalls = 1
           /\ \E i \in RecordsBy(r) : history[i] = req[r].created[1]
      /\ Done(r) =>
           /\ req[r].status = 201
           /\ req[r].response # None
           /\ req[r].response[1].usedFallback = TRUE
           /\ req[r].response[1].atsScore = req[r].created[1].atsScore
           /\ req[r].created[1].atsScore = req[r].result[1].atsScore
           /\ RecordsBy(r) # {}

C1_Witness ==
  \E r \in Reqs :
    /\ Done(r) /\ req[r].status = 201
    /\ req[r].err = GeminiParseError("TIMEOUT")
    /\ req[r].response[1].usedFallback

\* C2: in every persisted analysis record and in every returned analysis,
\* fallbackReason is non-null if and only if usedFallback is true.
C2_ReasonIffFallback ==
  /\ \A i \in DOMAIN history :
       (history[i].fallbackReason # NULL) <=> history[i].usedFallback
  /\ \A r \in Reqs :
       req[r].response # None =>
         ((req[r].response[1].fallbackReason # NULL) <=> req[r].response[1].usedFallback)

C2_Witness ==
  \E r \in Reqs :
    /\ req[r].response # None
    /\ req[r].response[1].usedFallback
    /\ req[r].response[1].fallbackReason = "EMPTY_PROD"

\* C3: the persisted fallbackReason depends on the cause only: QuotaError ->
\* QUOTA, ParseError EMPTY_OR_NON_JSON -> EMPTY, EMPTY_PROD -> EMPTY_PROD,
\* SAFETY_REJECTION -> SAFETY, any other ParseError or unexpected error ->
\* PARSE; without a credential the remote client is not invoked and the
\* reason is PARSE.
ExpectedReason(r) ==
  LET e == req[r].err
  IN IF ~env.hasKey THEN "PARSE"
     ELSE CASE e.kind = "none" -> NULL
            [] e.kind = "GeminiQuotaError" -> "QUOTA"
            [] e.kind = "GeminiParseError" /\ e.code = "EMPTY_OR_NON_JSON" -> "EMPTY"
            [] e.kind = "GeminiParseError" /\ e.code = "EMPTY_PROD" -> "EMPTY_PROD"
            [] e.kind = "GeminiParseError" /\ e.code = "SAFETY_REJECTION" -> "SAFETY"
            [] OTHER -> "PARSE"

C3_ReasonByCause ==
  \A r \in Reqs :
    /\ ~env.hasKey => req[r].geminiCalls = 0 /\ req[r].genCalls = 0 /\ req[r].uploads = 0
    /\ \A i \in RecordsBy(r) : history[i].fallbackReason = ExpectedReason(r)
    /\ req[r].response # None => req[r].response[1].fallbackReason = ExpectedReason(r)

C3_Witness ==
  \E r \in Reqs :
    /\ req[r].err = GeminiParseError("TIMEOUT")
    /\ \E i \in RecordsBy(r) : history[i].fallbackReason = "PARSE"

\* C4: every failure of document source resolution (no delivery URL, public
\* probe inaccessible with no stored asset identifier, signing failure,
\* authenticated probe not ok or rejected, public probe rejected, body
\* download failure) ends the request with 502; the remote client and the
\* keyword scorer are not invoked and no record is created.
C4_SourceFailureIs502 ==
  \A r \in Reqs :
    req[r].sourceFailure # "" =>
      /\ Done(r) /\ req[r].status = 502
      /\ req[r].geminiCalls = 0 /\ req[r].genCalls = 0 /\ req[r].uploads = 0
      /\ req[r].scorerCalls = 0
      /\ req[r].created = None /\ RecordsBy(r) = {}

\* C5: when the stored fileSize of the CV exceeds the maximum the request
\* ends with 413 before any HEAD probe, body download or remote analysis
\* call, and nothing is persisted.
C5_StoredSizeRejectedFirst ==
  \A r \in Reqs :
    LET me == req[r]
    IN (/\ me.pc \notin {"off", "start", "json", "findCv"}
        /\ me.status \notin {401, 429, 400}
        /\ me.cvId \in DOMAIN cvs
        /\ cvs[me.cvId].userId = me.user
        /\ cvs[me.cvId].fileSize > MAX_FILE_BYTES) =>
         /\ Done(r) /\ me.status = 413
         /\ me.heads = <<>> /\ me.gets = <<>> /\ me.signerCalls = 0
         /\ me.geminiCalls = 0 /\ me.genCalls = 0 /\ me.uploads = 0
         /\ me.created = None /\ RecordsBy(r) = {} /\ me.metaUpdates = 0

C5_Witness ==
  \E r \in Reqs :
    /\ Done(r) /\ req[r].status = 413
    /\ req[r].cvId \in DOMAIN cvs
    /\ cvs[req[r].cvId].fileSize = MAX_FILE_BYTES + 1
    /\ req[r].heads = <<>>

\* C6: a request creates at most one analysis record, and only once its
\* result (remote or fallback) is determined; a request answered with 401,
\* 429, 400, 404, 413 or 502 leaves the history and the CV's cached analysis
\* fields as they were.
C6_AtMostOneRecord ==
  /\ [](\A r \in Reqs :
          /\ Cardinality(RecordsBy(r)) <= 1
          /\ \A i \in RecordsBy(r) :
               /\ req[r].result # None
               /\ history[i].atsScore = req[r].result[1].atsScore
               /\ history[i].keywords = req[r].result[1].keywords
          /\ (Done(r) /\ req[r].status \in ErrorStatuses) =>
               RecordsBy(r) = {} /\ req[r].metaUpdates = 0)
  /\ [][\A r \in Reqs :
          /\ Len(history') <= Len(history) + 1
          /\ (req'[r].pc = "done" /\ req[r].pc # "done"
                /\ req'[r].status \in ErrorStatuses) =>
               history' = history /\ cvs' = cvs]_vars

C6_Witness ==
  \E r \in Reqs :
    /\ Done(r) /\ req[r].status = 201
    /\ Cardinality(RecordsBy(r)) = 1
    /\ Len(history) = 2

\* C7: every request that produces a result persists a record and then sets
\* the CV's cached atsScore to the persisted score and its analyzed
\* timestamp; the CV's cached fields are never updated unless the record was
\* persisted before.
C7_PersistThenUpdateCv ==
  /\ [](\A r \in Reqs :
          /\ (req[r].result # None /\ Done(r)) =>
               req[r].status = 201 /\ RecordsBy(r) # {} /\ req[r].metaUpdates = 1
          /\ req[r].metaUpdates > 0 => req[r].created # None /\ RecordsBy(r) # {})
  /\ [][/\ \A r \in Reqs :
             req'[r].metaUpdates > req[r].metaUpdates =>
               /\ req[r].created # None
               /\ \E i \in RecordsBy(r) : history[i] = req[r].created[1]
               /\ cvs'[req[r].cvId].atsScore = req[r].created[1].atsScore
               /\ cvs'[req[r].cvId].analyzedAt = now
        /\ cvs' # cvs => \E r \in Reqs : req'[r].metaUpdates > req[r].metaUpdates]_vars

C7_Witness ==
  \E r \in Reqs :
    /\ Done(r) /\ req[r].status = 201 /\ req[r].metaUpdates = 1
    /\ cvs[req[r].cvId].atsScore = req[r].created[1].atsScore
    /\ cvs[req[r].cvId].analyzedAt # NoNum

Insufficient(seen) == seen.blank \/ seen.finishReason # "STOP"

\* C8 as stated: phase 2 (the file-upload attempt) is started if and only if
\* phase 1 returned normally with blank text or a finish reason other than
\* STOP; a sufficient phase-1 response means no upload and exactly one
\* generateContent call.
C8_Original ==
  \A r \in Reqs :
    /\ req[r].uploads >= 1 <=> (req[r].p1 # None /\ Insufficient(req[r].p1[1]))
    /\ (req[r].p1 # None /\ ~Insufficient(req[r].p1[1])) =>
         req[r].uploads = 0 /\ req[r].genCalls = 1

\* C8 amended: phase 2 is started if and only if phase 1 returned normally
\* with blank text or a finish reason other than STOP and the production
\* deadline, when there is one, had not passed at that moment; a sufficient
\* phase-1 response means no upload and exactly one generateContent call.
C8_PhaseTwoIffInsufficientInTime ==
  \A r \in Reqs :
    /\ req[r].uploads >= 1 <=>
         (req[r].p1 # None /\ Insufficient(req[r].p1[1]) /\ ~req[r].p1Expired)
    /\ (req[r].p1 # None /\ Insufficient(req[r].p1[1]) /\ req[r].p1Expired) =>
         req[r].err = GeminiParseError("TIMEOUT")
    /\ (req[r].p1 # None /\ ~Insufficient(req[r].p1[1])) =>
         req[r].uploads = 0 /\ req[r].genCalls = 1

C8_Witness ==
  \E r \in Reqs :
    /\ req[r].uploads = 1
    /\ req[r].p1 # None /\ ~req[r].p1[1].blank /\ req[r].p1[1].finishReason = "MAX_TOKENS"

\* C9: when both phases return normally and both responses are insufficient
\* the client throws GeminiParseError with code EMPTY_PROD in production and
\* EMPTY_OR_NON_JSON otherwise; it does not return a result.
C9_BothInsufficientThrows ==
  \A r \in Reqs :
    (/\ req[r].p1 # None /\ Insufficient(req[r].p1[1])
     /\ req[r].p2 # None /\ Insufficient(req[r].p2[1])) =>
       /\ req[r].err = GeminiParseError(IF env.isProd THEN "EMPTY_PROD"
                                                     ELSE "EMPTY_OR_NON_JSON")
       /\ req[r].geminiResult = None
       /\ req[r].fallbackReason = IF env.isProd THEN "EMPTY_PROD" ELSE "EMPTY"

C9_Witness ==
  \E r \in Reqs :
    /\ env.isProd
    /\ req[r].p1 # None /\ req[r].p1[1].blank
    /\ req[r].p2 # None /\ ~req[r].p2[1].blank /\ req[r].p2[1].finishReason = "MAX_TOKENS"
    /\ req[r].err = GeminiParseError("EMPTY_PROD")

\* C10: a 429 on the first generateContent attempt is retried once after the
\* provider-indicated delay, so a request whose first attempt was answered
\* 429 has issued a second generateContent call before its result is
\* persisted; GeminiQuotaError is raised only when the retries are exhausted.
C10_RetryAfter429 ==
  \A r \in Reqs :
    /\ (req[r].first429 /\ req[r].created # None) => req[r].genCalls >= 2
    /\ req[r].err.kind = "GeminiQuotaError" => req[r].genCalls >= 2

\* C11: the delay applied after a provider 429 is the provider's retry hint
\* when there is one and the default otherwise, never more than the maximum
\* backoff, and the GeminiQuotaError that is raised carries retryAt = time of
\* the 429 failure + that delay.
C11_RetryAtIsFailurePlusDelay ==
  \A r \in Reqs :
    req[r].quotaAt # NoNum =>
      LET wanted == IF req[r].quotaHint = NoNum THEN DEFAULT_RETRY_MS ELSE req[r].quotaHint
          delay == IF wanted > MAX_BACKOFF_MS THEN MAX_BACKOFF_MS ELSE wanted
      IN /\ req[r].quotaDelay = delay
         /\ req[r].quotaDelay <= MAX_BACKOFF_MS
         /\ req[r].err.kind = "GeminiQuotaError" =>
              req[r].err.retryAt = req[r].quotaAt + delay

C13_ExpiredBudgetStartsNoPhase ==
  \A r \in Reqs :
    /\ (env.isProd /\ req[r].p1 # None /\ Insufficient(req[r].p1[1]) /\ req[r].p1Expired) =>
         /\ req[r].err = GeminiParseError("TIMEOUT")
         /\ req[r].uploads = 0 /\ req[r].genCalls = 1 /\ req[r].polls = 0
         /\ req[r].p2 = None
    /\ (env.isProd /\ req[r].geminiCalls = 1 /\ req[r].genCalls = 0) =>
         req[r].err = GeminiParseError("TIMEOUT")
    /\ ~env.isProd =>
         /\ req[r].deadline = NoNum /\ req[r].timerAt = NoNum
         /\ req[r].err # GeminiParseError("TIMEOUT")
         /\ ~req[r].p1Expired

C13_Witness ==
  \E r \in Reqs :
    /\ env.isProd /\ req[r].p1Expired
    /\ req[r].p1 # None /\ req[r].p1[1].finishReason = "MAX_TOKENS"
    /\ req[r].err = GeminiParseError("TIMEOUT")
    /\ req[r].uploads = 0

InsideGemini(r) == req[r].pc \in {"gen_wait", "gen_sleep", "upload", "poll"}

\* C14: in production analyzeWithGeminiFile settles no later than its
\* deadline, 7000 ms after it started, however long generateContent, the
\* file upload and the file-status polling take: it is never still running
\* after the deadline and never settles after it.
C14_SettlesByDeadline ==
  \A r \in Reqs :
    env.isProd =>
      /\ InsideGemini(r) => now <= req[r].deadline
      /\ ~req[r].late

\* C15: whenever phase 2 has uploaded a temporary file to the provider's
\* storage, a delete of that file has been attempted by the time phase 2
\* finishes, whatever the outcome (response, insufficient response, provider
\* error, timeout, or no usable URI for the file).
C15_UploadedFileIsDeleted ==
  \A r \in Reqs :
    (req[r].stored /\ ~InsideGemini(r)) => req[r].deletes >= 1

\* the strict schema, stated on a document
ValidDoc(doc) ==
  /\ doc.kind = "json"
  /\ doc.integral /\ doc.atsScore \in 0..100
  /\ doc.shapeOk

\* the payload itself and the content of every fenced block in it, the
\* language tag aside
SourcesOf(payload) ==
  {payload} \cup
  UNION { LET from == IF payload[i + 1] = TAG THEN i + 2 ELSE i + 1
          IN IF from <= j - 1 THEN {SubSeq(payload, from, j - 1)} ELSE {}
          : <<i, j>> \in {<<a, b>> \in (DOMAIN payload) \X (DOMAIN payload) :
                           a < b /\ payload[a] = FENCE /\ payload[b] = FENCE} }

\* C16: for every payload P, parseGeminiJson(P) either returns an object
\* that satisfies the strict schema and was read from P itself or from the
\* content of a fenced block in P, or throws GeminiParseError
\* EMPTY_OR_NON_JSON; it never returns a value that violates the schema.
C16_ParseIsStrict ==
  (call.fn = "parseGeminiJson" /\ call.done) =>
    \/ /\ call.out.ok /\ call.out.err = NoErr
       /\ \E src \in SourcesOf(call.payload) :
            /\ ValidDoc(jsonView(src))
            /\ call.out.data = Some([atsScore |-> jsonView(src).atsScore,
                                     keywords |-> GEMINI_KEYWORDS])
    \/ /\ ~call.out.ok /\ call.out.data = None
       /\ call.out.err = GeminiParseError("EMPTY_OR_NON_JSON")

C16_Witness ==
  /\ call.fn = "parseGeminiJson" /\ call.done
  /\ call.payload = <<PROSE, FENCE, TAG, JsonTok(JsonDoc(83, TRUE)), FENCE>>
  /\ call.out.ok

\* the last response was present (non-blank text, finish reason STOP) and
\* the client still failed: its text was not parseable or not schema-valid
Malformed(r) ==
  LET last == IF req[r].p2 # None THEN req[r].p2 ELSE req[r].p1
  IN /\ last # None
     /\ ~last[1].blank /\ last[1].finishReason = "STOP"
     /\ RemoteFailed(r)

\* C17: when the remote service returns content that is present but is
\* malformed JSON, the analysis falls back with fallbackReason PARSE.
C17_MalformedJsonIsParse ==
  \A r \in Reqs :
    Malformed(r) =>
      /\ req[r].fallbackReason = "PARSE"
      /\ \A i \in RecordsBy(r) : history[i].fallbackReason = "PARSE"

\* the allowed calls for a key that lie within the last window
AllowedInWindow(log, key, nowMs) ==
  {i \in DOMAIN log[key] : nowMs - log[key][i] < 60000}

\* C18: in every sequence of checkRateLimit calls at non-decreasing times, a
\* call for a key returns true if and only if fewer than 10 previously
\* allowed calls for that key lie within the last 60000 ms; a denied call
\* is not recorded; so 10 calls in a window succeed, the next fails, and
\* calls succeed again once the window has elapsed.
C18_SlidingWindow ==
  /\ [][call'.n # call.n =>
          LET key == call'.key
              before == Cardinality(AllowedInWindow(call.log, key, now))
          IN /\ call'.allowed <=> before < 10
             /\ ~call'.allowed => buckets'[key] = SelectSeq(buckets[key],
                                     LAMBDA t : now - t < 60000)
             /\ \A other \in RateKeys \ {key} : buckets'[other] = buckets[other]]_vars
  /\ [](call.fn = "checkRateLimit" =>
          \A key \in RateKeys :
            /\ Cardinality(AllowedInWindow(call.log, key, now)) <= 10
            /\ Len(buckets[key]) <= 10)

C18_Witness ==
  /\ call.fn = "checkRateLimit"
  /\ call.allowed /\ call.denied > 0
  /\ Len(call.log[call.key]) = 11
  /\ now - call.log[call.key][1] >= 60000

\* the distinct keywords of a list, trimmed and lower-cased, blanks aside
DistinctWords(keywords) ==
  {toLowerCase(trim(keywords[i])) : i \in DOMAIN keywords} \ {""}
MatchedWords(text, keywords) ==
  {w \in DistinctWords(keywords) : includes(toLowerCase(text), w)}

\* C19: for every text T and keyword list K, scoreKeywords(T, K) returns an
\* integer score in 0..100 equal to round(100 * matched / distinct) over
\* the trimmed, case-insensitively distinct keywords, one match per
\* distinct keyword that occurs in T; the empty list gives score 0 and no
\* matches.
C19_ScoreIsRoundedRatio ==
  (call.fn = "scoreKeywords" /\ call.done) =>
    LET distinct == Cardinality(DistinctWords(call.keywords))
        matched == Cardinality(MatchedWords(call.text, call.keywords))
    IN /\ call.out.score \in 0..100
       /\ distinct > 0 =>
            call.out.score = (200 * matched + distinct) \div (2 * distinct)
       /\ Len(call.out.keywordsMatched) = matched
       /\ {toLowerCase(trim(call.out.keywordsMatched[i])) :
             i \in DOMAIN call.out.keywordsMatched} = MatchedWords(call.text, call.keywords)
       /\ call.keywords = <<>> => call.out = [score |-> 0, keywordsMatched |-> <<>>]

\* C20: in every fallback result atsScore is the scorer's score,
\* keywords.extracted is the scorer's matched list and keywords.missing is
\* the requested keywords minus the matched ones, so the two lists are
\* disjoint and together cover every requested keyword; the default
\* keywords with the text "javascript react node" give score 60, extracted
\* javascript, react, node and missing typescript, nextjs.
C20_FallbackResultShape ==
  \A r \in Reqs :
    req[r].scorerCalls = 1 =>
      LET requested == req[r].keywordList
          text == extractTextFromBuffer(req[r].fileDownload[1].buffer, req[r].mimeType)
          scored == scoreKeywords(text, requested)
          fallback == req[r].result[1]
          extracted == Range(fallback.keywords.extracted)
          missing == Range(fallback.keywords.missing)
      IN /\ fallback.atsScore = scored.score
         /\ fallback.keywords.extracted = scored.keywordsMatched
         /\ missing = Range(requested) \ Range(scored.keywordsMatched)
         /\ extracted \cap missing = {}
         /\ extracted \cup missing = Range(requested)
         /\ (requested = <<"javascript", "react", "node", "typescript", "nextjs">>
               /\ text = "javascript react node") =>
              fallback = [atsScore |-> 60,
                          keywords |-> [extracted |-> <<"javascript", "react", "node">>,
                                        missing |-> <<"typescript", "nextjs">>]]

C20_Witness ==
  \E r \in Reqs :
    /\ req[r].scorerCalls = 1 /\ Done(r)
    /\ req[r].response[1].usedFallback
    /\ req[r].response[1].atsScore = 60
    /\ req[r].result[1].keywords.missing = <<"typescript", "nextjs">>

\* every body download of request r went to a URL whose HEAD returned ok
GetWasProbed(r) ==
  \A i \in DOMAIN req[r].gets : \E head \in req[r].okHeads : head.url = req[r].gets[i]
\* request r probed the store, no probe has returned ok and no bytes were
\* obtained
NoProbeSucceeded(r) ==
  /\ req[r].inline = None /\ req[r].heads # <<>> /\ req[r].okHeads = {}
  /\ req[r].fileDownload = None

\* C21: a body download is only issued, in the step that issues it, against
\* a URL whose HEAD probe returned ok in the same request, and a request in
\* which neither the public nor the authenticated probe succeeded ends with
\* 502 and without any body download.
C21_DownloadOnlyAfterOkProbe ==
  /\ [][\A r \in Reqs :
          req'[r].gets # req[r].gets =>
            \E head \in req'[r].okHeads :
              req'[r].gets = Append(req[r].gets, head.url)]_vars
  /\ [](\A r \in Reqs :
          /\ req[r].pc = "download" => GetWasProbed(r)
          /\ NoProbeSucceeded(r) => req[r].gets = <<>>
          /\ (NoProbeSucceeded(r) /\ Done(r)) => req[r].status = 502)


\* the public probe of request r returned and was not overridden by the
\* test header
PublicProbed(r) == req[r].publicHead # None /\ ~req[r].publicHead[1].forced
\* a probe outcome that is ok and reports a positive size
ReportedUsable(head) == head.ok /\ head.contentLength > 0
SignedUrlOf(r) == signedRawUrl(cvs[req[r].cvId].publicId)
\* the first probe of a request is the public one
PublicUrlOf(r) == req[r].heads[1]

ProbedOversize(r) == \E head \in req[r].okHeads : head.contentLength > MAX_FILE_BYTES
\* the bytes request r obtained (downloaded or inline) exceed the maximum
ObtainedOversize(r) ==
  req[r].fileDownload # None /\ req[r].fileDownload[1].buffer.byteLength > MAX_FILE_BYTES

\* C23: a request whose probe reported a size above the maximum ends with 413
\* and issues no body download; a request whose obtained bytes (downloaded or
\* inline) exceed the maximum ends with 413; the remote client and the scorer
\* are only ever invoked on at most the maximum number of bytes.
C23_SizeLimitAtBothPoints ==
  \A r \in Reqs :
    /\ ProbedOversize(r) => Done(r) /\ req[r].status = 413 /\ req[r].gets = <<>>
    /\ ObtainedOversize(r) => Done(r) /\ req[r].status = 413
    /\ (req[r].geminiCalls > 0 \/ req[r].scorerCalls > 0) =>
         /\ req[r].fileDownload # None
         /\ req[r].fileDownload[1].buffer.byteLength <= MAX_FILE_BYTES

C23_Witness ==
  \E r \in Reqs :
    /\ Done(r) /\ req[r].status = 413
    /\ req[r].gets # <<>> /\ ~ProbedOversize(r) /\ ObtainedOversize(r)
    /\ req[r].geminiCalls = 0 /\ req[r].scorerCalls = 0


\* request r carried a non-blank inline payload and reached the inline branch
InlineReached(r) ==
  /\ req[r].inline # None
  /\ req[r].pc \notin {"start", "json", "findCv"}
  /\ req[r].status \notin {404, 413} \/ req[r].fileDownload # None
InlineInvalid(r) ==
  ~req[r].inline[1].validFormat \/ req[r].inline[1].buffer.byteLength = 0

\* C24: a request whose inline payload is not valid base64 or decodes to zero
\* bytes ends with 400 and persists nothing; a request whose inline payload
\* is valid uses exactly the decoded bytes; with an inline payload the blob
\* store is never contacted (no HEAD, no GET, no signer call).
C24_InlinePayload ==
  \A r \in Reqs :
    /\ req[r].inline # None =>
         req[r].heads = <<>> /\ req[r].gets = <<>> /\ req[r].signerCalls = 0
    /\ (InlineReached(r) /\ InlineInvalid(r)) =>
         /\ Done(r) /\ req[r].status = 400
         /\ req[r].fileDownload = None
         /\ req[r].geminiCalls = 0 /\ req[r].scorerCalls = 0
         /\ req[r].created = None /\ RecordsBy(r) = {} /\ req[r].metaUpdates = 0
    /\ (InlineReached(r) /\ ~InlineInvalid(r)) =>
         /\ req[r].fileDownload # None
         /\ req[r].fileDownload[1].buffer = req[r].inline[1].buffer
         /\ Done(r) => req[r].status \in {201, 413}

C24_Witness ==
  \E r \in Reqs :
    /\ InlineReached(r) /\ ~InlineInvalid(r)
    /\ Done(r) /\ req[r].status = 201 /\ RecordsBy(r) # {}
    /\ req[r].heads = <<>> /\ req[r].gets = <<>>


\* the file-referencing request of request r is in flight
FileRequestPending(r) == req[r].phase = 2 /\ req[r].pc \in {"gen_wait", "gen_sleep"}

\* C25: the file-referencing request of phase 2 is only submitted after the
\* stored file has reported state ACTIVE, in the upload response or in a
\* poll; a file that never reports ACTIVE within the five polls is never
\* referenced by a request.
C25_FileRequestOnlyWhenActive ==
  \A r \in Reqs : FileRequestPending(r) => req[r].activeSeen


\* the text is a valid result, as it stands or inside its fenced block
Parseable(text) ==
  ValidDoc(text.body) \/ (text.fence # None /\ ValidDoc(text.fence[1]))
\* phase 1 of request r returned non-blank text with finish reason STOP
PhaseOneSufficient(r) == req[r].p1 # None /\ ~Insufficient(req[r].p1[1])

\* C28: a phase-1 response with non-blank text and finish reason STOP is
\* final: the client settles with it, with the parsed result when the text
\* or its fenced block is a valid result and with GeminiParseError
\* EMPTY_OR_NON_JSON otherwise, and phase 2 is never attempted (no upload, no
\* poll, no delete, no second generateContent call).
C28_SufficientPhaseOneIsFinal ==
  \A r \in Reqs :
    PhaseOneSufficient(r) =>
      /\ ~InsideGemini(r)
      /\ req[r].uploads = 0 /\ req[r].polls = 0 /\ req[r].deletes = 0
      /\ req[r].genCalls = 1 /\ req[r].p2 = None
      /\ IF Parseable(req[r].p1[1].text)
         THEN req[r].err = NoErr /\ req[r].geminiResult # None
         ELSE req[r].err = GeminiParseError("EMPTY_OR_NON_JSON")
              /\ req[r].geminiResult = None

C28_Witness ==
  \E r \in Reqs :
    /\ PhaseOneSufficient(r) /\ ~Parseable(req[r].p1[1].text)
    /\ req[r].p1[1].text.body = JsonDoc(101, TRUE)
    /\ req[r].err = GeminiParseError("EMPTY_OR_NON_JSON")
    /\ Done(r) /\ req[r].status = 201 /\ req[r].uploads = 0 /\ req[r].genCalls = 1


\* C29: in every fallback result no keyword listed in keywords.missing
\* occurs in the extracted text, compared as the scorer compares (trimmed,
\* lower case), also when the requested list holds duplicates or case
\* variants of one keyword.
C29_MissingNeverInText ==
  \A r \in Reqs :
    req[r].scorerCalls = 1 =>
      LET text == extractTextFromBuffer(req[r].fileDownload[1].buffer, req[r].mimeType)
          missing == req[r].result[1].keywords.missing
      IN \A i \in DOMAIN missing :
           ~includes(toLowerCase(text), normalizeWord(missing[i]))


\* the steps analyzeWithGeminiFile may still take from the position of r
StepsLeft(r) ==
  IF ~InsideGemini(r) THEN 0
  ELSE IF req[r].phase = 1 THEN (IF req[r].pc = "gen_wait" THEN 11 ELSE 10)
  ELSE IF req[r].pc = "upload" THEN 9
  ELSE IF req[r].pc = "poll" THEN 3 + (MAX_POLL_ATTEMPTS - req[r].attempts)
  ELSE IF req[r].pc = "gen_wait" THEN 2 ELSE 1
\* the model's clock cannot advance any more
ClockExhausted == now + TickMs > StartTime + MaxElapsed

\* C30: a call of analyzeWithGeminiFile issues at most 2 generateContent
\* calls, 1 file upload, 5 file-status polls and 1 file delete; every step of
\* the call brings it closer to its end; and when every provider call returns
\* or fails and every sleep ends, the call terminates.
C30_TerminatesWithBoundedCalls ==
  /\ [](\A r \in Reqs :
          /\ req[r].genCalls <= 2 /\ req[r].uploads <= 1
          /\ req[r].polls <= MAX_POLL_ATTEMPTS /\ req[r].deletes <= 1
          /\ req[r].pc = "poll" => req[r].attempts \in 1..MAX_POLL_ATTEMPTS)
  /\ [][\A r \in Reqs :
          (InsideGemini(r) /\ req'[r] # req[r]) => StepsLeft(r)' < StepsLeft(r)]_vars
  /\ \A r \in Reqs : InsideGemini(r) ~> (~InsideGemini(r) \/ ClockExhausted)

C30_Witness ==
  \E r \in Reqs :
    /\ ~InsideGemini(r) /\ req[r].geminiCalls = 1
    /\ req[r].genCalls = 2 /\ req[r].uploads = 1
    /\ req[r].polls = MAX_POLL_ATTEMPTS /\ req[r].deletes = 1
    /\ ~ClockExhausted


\* every request has completed
AllDone == \A r \in Concurrent : Done(r)
\* the requests that created a record for CV cv1
Persisted == {r \in Reqs : req[r].created # None /\ req[r].cvId = "cv1"}

\* C26: once all concurrent requests for one document have completed, the
\* cached score of the document equals the atsScore of the record that
\* findLatestForCv returns for it.
C26_CachedScoreIsLatest ==
  (AllDone /\ Persisted # {}) =>
    cvs["cv1"].atsScore = findLatestForCv(history, "cv1", "u1")[1].atsScore

\* the requests of user u that passed the throttle
Passed(u) ==
  {r \in Reqs : req[r].user = u /\ req[r].pc \notin {"off", "start"} /\ req[r].status # 429}
\* the timestamps of key k that checkRateLimit pushed since the start
PushedNow(k) == {i \in DOMAIN buckets[k] : buckets[k][i] = StartTime}

\* C27: checkRateLimit checks and appends in one step of one request, so
\* under every interleaving each passed request of a user has exactly one
\* timestamp in the user's bucket, and the timestamps of one key within the
\* window never exceed the limit.
C27_ThrottleIsAtomic ==
  /\ [](\A u \in Users :
          /\ Cardinality(Passed(u)) = Cardinality(PushedNow(rateKey(u)))
          /\ Cardinality(AllowedInWindow(buckets, rateKey(u), now)) <= LIMIT)
  /\ [][buckets' # buckets =>
          \E r \in Reqs : \E u \in Users :
            /\ req[r].pc = "start" /\ req'[r].pc = "json" /\ req'[r].user = u
            /\ \A o \in Reqs \ {r} : req'[o] = req[o]
            /\ buckets' = [buckets EXCEPT ![rateKey(u)] = Append(@, now)]
            /\ Len(buckets[rateKey(u)]) < LIMIT]_vars

C27_Witness ==
  \E r, o \in Reqs :
    /\ r # o /\ req[r].user = "u1" /\ req[o].user = "u1"
    /\ req[r].pc = "json" /\ Done(o) /\ req[o].status = 429
    /\ Len(buckets[rateKey("u1")]) = LIMIT

====
